---------------------------- MODULE Spec2Model ----------------------------
(***************************************************************************)
(* Model of src/server.js: the handler getCityWeather behind               *)
(* GET /api/weather/:city, the Express error-handling middleware, and the  *)
(* upstream (CWA open-data API) as the environment of the outbound call.   *)
(*                                                                         *)
(* A request runs in two steps, split at the handler's only suspension     *)
(* point, the await of axios.get: Receive (lines 33-67) and UpstreamReply  *)
(* (lines 69-157).  An exception that leaves the catch block rejects the   *)
(* promise the async handler returned; what happens then depends on the    *)
(* Express major version the build installs, so both outcomes are actions: *)
(* ErrorMiddleware (Express 5 forwards the rejection to lines 195-201) and *)
(* UnhandledRejection (Express 4 ignores the promise: nothing is sent).    *)
(* The version is fixed when the process starts.                           *)
(*                                                                         *)
(* JavaScript values are modelled as follows.  Strings are strings; the    *)
(* source's Chinese literals are written as ASCII tokens, one per literal. *)
(* undefined and null in a string position are the tokens Undefined and    *)
(* Null.  An object is a record holding exactly the keys the object has,   *)
(* so "key absent" is "not in DOMAIN".  An array is a sequence (index i of *)
(* the source is index i+1 here).  A response body is the object handed to *)
(* res.json.                                                               *)
(***************************************************************************)
EXTENDS Naturals, Sequences, FiniteSets, TLC

VARIABLES
    CITIES,       \* the registry object (lines 14-21)
    CWA_API_KEY,  \* process.env.CWA_API_KEY as read at start-up (line 11)
    express,      \* major version of the express package the build loads (line 2)
    pc,           \* per request: idle | awaiting | rejected | unhandled | done
    city,         \* per request: req.params.city (line 34)
    outbound,     \* per request: the axios.get calls issued (lines 59-67)
    reply,        \* per request: the outcome of its outbound call, <<>> before
    res,          \* per request: the responses sent, in order
    err           \* per request: message of the error that left the handler

vars == <<CITIES, CWA_API_KEY, express, pc, city, outbound, reply, res, err>>

-----------------------------------------------------------------------------
(* Bounds of the model *)

\* Largest number of weather elements in a time-series payload.
MaxElements == 2
\* Largest number of time slots of one weather element in such a payload.
MaxSlots == 2
\* Largest number of (element, slot) cells in a field payload.
MaxCells == 2
\* Number of requests in flight in the concurrent specification.
NumRequests == 3

-----------------------------------------------------------------------------
(* JavaScript values *)

Undefined == "undefined"
Null == "null"

\* ToBoolean of a value in a string position.
Falsy(s) == s \in {Undefined, Null, ""}

\* a || b on strings
OrElse(a, b) == IF Falsy(a) THEN b ELSE a

Has(obj, key) == key \in DOMAIN obj

\* obj.key on an object: undefined when the key is absent
Prop(obj, key) == IF Has(obj, key) THEN obj[key] ELSE Undefined

\* Array.prototype.join
RECURSIVE Join(_, _)
Join(seq, sep) ==
    IF Len(seq) = 0 THEN ""
    ELSE IF Len(seq) = 1 THEN seq[1]
    ELSE seq[1] \o sep \o Join(Tail(seq), sep)

-----------------------------------------------------------------------------
(* The city registry, lines 14-21.  name is the upstream query name and    *)
(* displayName the name shown to callers; they differ for three cities.    *)

RegisteredIds ==
    <<"taipei", "newtaipei", "taoyuan", "taichung", "tainan", "kaohsiung">>

Registry ==
    [k \in {RegisteredIds[n] : n \in 1..Len(RegisteredIds)} |->
       CASE k = "taipei"    -> [id |-> "taipei", name |-> "Taibei-shi(trad)", displayName |-> "Taibei-shi"]
         [] k = "newtaipei" -> [id |-> "newtaipei", name |-> "Xinbei-shi", displayName |-> "Xinbei-shi"]
         [] k = "taoyuan"   -> [id |-> "taoyuan", name |-> "Taoyuan-shi", displayName |-> "Taoyuan-shi"]
         [] k = "taichung"  -> [id |-> "taichung", name |-> "Taizhong-shi(trad)", displayName |-> "Taizhong-shi"]
         [] k = "tainan"    -> [id |-> "tainan", name |-> "Tainan-shi(trad)", displayName |-> "Tainan-shi"]
         [] k = "kaohsiung" -> [id |-> "kaohsiung", name |-> "Gaoxiong-shi", displayName |-> "Gaoxiong-shi"]]

\* CITIES is an object literal, so its prototype is Object.prototype: a key
\* it does not own is looked up there.  Two of the inherited members, both
\* functions; a function has a name and no id or displayName.
ObjectPrototype ==
    [k \in {"constructor", "toString"} |->
       IF k = "constructor" THEN [name |-> "Object"] ELSE [name |-> "toString"]]

\* Object.keys(obj), in insertion order
RECURSIVE KeysIn(_, _)
KeysIn(order, obj) ==
    IF Len(order) = 0 THEN <<>>
    ELSE (IF order[1] \in DOMAIN obj THEN <<order[1]>> ELSE <<>>)
         \o KeysIn(Tail(order), obj)

ObjectKeys(obj) == KeysIn(RegisteredIds, obj)

\* Object.values(obj)
ObjectValues(obj) ==
    [k \in 1..Len(ObjectKeys(obj)) |-> obj[ObjectKeys(obj)[k]]]

\* CITIES[key]: own property, else inherited, else undefined (here <<>>)
Lookup(obj, key) ==
    IF key \in DOMAIN obj THEN <<obj[key]>>
    ELSE IF key \in DOMAIN ObjectPrototype THEN <<ObjectPrototype[key]>>
    ELSE <<>>

\* !CITIES[city], line 37
IsInvalidCity(obj, key) == Lookup(obj, key) = <<>>

\* a check for an unset variable only: an empty CWA_API_KEY counts as set
IsMissingKeyUnsetOnly(key) == key = Undefined

\* !CWA_API_KEY, line 49
IsMissingKey(key) == Falsy(key)

\* CITIES[city].name, line 56
CityName(obj, key) == Prop(Lookup(obj, key)[1], "name")

\* CITIES[city].displayName, lines 77 and 85
CityDisplayName(obj, key) == Prop(Lookup(obj, key)[1], "displayName")

-----------------------------------------------------------------------------
(* Responses.  A response is [status, body]; body is the res.json argument. *)

Json(status, body) == [status |-> status, body |-> body]

\* lines 38-45
InvalidCityResponse(cities) ==
    Json(400,
         [error      |-> "invalid city code",
          message    |-> "city code must be: " \o Join(ObjectKeys(cities), ", "),
          validCities |->
             [k \in 1..Len(ObjectValues(cities)) |->
                [id   |-> ObjectValues(cities)[k].id,
                 name |-> ObjectValues(cities)[k].displayName]]])

\* lines 50-53
MissingKeyResponse ==
    Json(500,
         [error   |-> "server configuration error",
          message |-> "set CWA_API_KEY in the .env file"])

\* lines 75-78
NotFoundResponse(cities, c) ==
    Json(404,
         [error   |-> "no data",
          message |-> "cannot get weather data of " \o CityDisplayName(cities, c)])

\* lines 153-156
GenericErrorResponse ==
    Json(500,
         [error   |-> "server error",
          message |-> "cannot get weather data, try again later"])

\* error.response.data.message || "...", line 148, for a body that is not
\* null or undefined: a string has no message property
UpstreamMessage(data) ==
    OrElse(IF data.t = "object" THEN Prop(data, "message") ELSE Undefined,
           "cannot get weather data")

\* lines 146-150
UpstreamErrorResponse(status, data) ==
    Json(status,
         [error   |-> "CWA API error",
          message |-> UpstreamMessage(data),
          details |-> data])

\* lines 197-200: the error-handling middleware's answer to an error err
MiddlewareResponse(message) ==
    Json(500, [error |-> "server error", message |-> message])

\* message of the TypeError V8 raises for a property read on null/undefined
TypeErrorMessage == "TypeError: cannot read properties of undefined or null"

-----------------------------------------------------------------------------
(* The forecast normalisation, lines 81-136 *)

\* lines 98-107: the forecast of slot i seeded with the defaults
SeedForecast(slot) ==
    [startTime |-> Prop(slot, "startTime"),
     endTime   |-> Prop(slot, "endTime"),
     weather   |-> "unknown",
     rain      |-> "0%",
     minTemp   |-> "N/A",
     maxTemp   |-> "N/A",
     comfort   |-> "unknown",
     windSpeed |-> "0"]

\* the switch with the targets of MinT and MaxT exchanged
ApplyParameterTempsSwapped(forecast, elementName, value) ==
    LET pn == Prop(value, "parameterName") IN
    CASE elementName = "Wx"   -> [forecast EXCEPT !.weather = OrElse(pn, "unknown")]
      [] elementName = "PoP"  -> [forecast EXCEPT !.rain = OrElse(pn, "0") \o "%"]
      [] elementName = "MinT" -> [forecast EXCEPT !.maxTemp = OrElse(pn, "N/A") \o "degC"]
      [] elementName = "MaxT" -> [forecast EXCEPT !.minTemp = OrElse(pn, "N/A") \o "degC"]
      [] elementName = "CI"   -> [forecast EXCEPT !.comfort = OrElse(pn, "unknown")]
      [] elementName = "WS"   -> [forecast EXCEPT !.windSpeed = OrElse(pn, "0")]
      [] OTHER                -> forecast

\* lines 111-132: the switch on element.elementName, given value =
\* element.time[i].parameter (an object)
ApplyParameter(forecast, elementName, value) ==
    LET pn == Prop(value, "parameterName") IN
    CASE elementName = "Wx"   -> [forecast EXCEPT !.weather = OrElse(pn, "unknown")]
      [] elementName = "PoP"  -> [forecast EXCEPT !.rain = OrElse(pn, "0") \o "%"]
      [] elementName = "MinT" -> [forecast EXCEPT !.minTemp = OrElse(pn, "N/A") \o "degC"]
      [] elementName = "MaxT" -> [forecast EXCEPT !.maxTemp = OrElse(pn, "N/A") \o "degC"]
      [] elementName = "CI"   -> [forecast EXCEPT !.comfort = OrElse(pn, "unknown")]
      [] elementName = "WS"   -> [forecast EXCEPT !.windSpeed = OrElse(pn, "0")]
      [] OTHER                -> forecast

\* element.time[i] can be read and is an object (line 110 does not throw)
HasSlot(element, i) == Has(element, "time") /\ i <= Len(element.time)

\* the forEach with element.time[i]?.parameter: a missing slot is skipped
RECURSIVE ForEachElementSkipping(_, _, _, _)
ForEachElementSkipping(forecast, weatherElements, k, i) ==
    IF k > Len(weatherElements) THEN <<forecast>>
    ELSE LET element == weatherElements[k] IN
         ForEachElementSkipping(
            IF HasSlot(element, i) /\ Has(element.time[i], "parameter")
               THEN ApplyParameter(forecast, Prop(element, "elementName"),
                                   element.time[i].parameter)
               ELSE forecast,
            weatherElements, k + 1, i)

\* lines 109-133: weatherElements.forEach over the elements from index k on.
\* The result is <<forecast>>, or <<>> when line 110 throws a TypeError.
RECURSIVE ForEachElement(_, _, _, _)
ForEachElement(forecast, weatherElements, k, i) ==
    IF k > Len(weatherElements) THEN <<forecast>>
    ELSE LET element == weatherElements[k] IN
         IF ~HasSlot(element, i) THEN <<>>
         ELSE LET slot == element.time[i] IN
              ForEachElement(IF Has(slot, "parameter")
                                THEN ApplyParameter(forecast,
                                                    Prop(element, "elementName"),
                                                    slot.parameter)
                                ELSE forecast,
                             weatherElements, k + 1, i)

\* the loop with forecasts.unshift(forecast) in place of push
RECURSIVE ForecastLoopUnshift(_, _, _, _)
ForecastLoopUnshift(forecasts, weatherElements, i, timeCount) ==
    IF i > timeCount THEN <<forecasts>>
    ELSE LET done == ForEachElement(SeedForecast(weatherElements[1].time[i]),
                                    weatherElements, 1, i) IN
         IF done = <<>> THEN <<>>
         ELSE ForecastLoopUnshift(<<done[1]>> \o forecasts, weatherElements,
                                  i + 1, timeCount)

\* lines 97-136: the loop over the time indexes from i on, pushing onto
\* forecasts.  The result is <<forecasts>>, or <<>> when an iteration throws.
RECURSIVE ForecastLoop(_, _, _, _)
ForecastLoop(forecasts, weatherElements, i, timeCount) ==
    IF i > timeCount THEN <<forecasts>>
    ELSE LET done == ForEachElement(SeedForecast(weatherElements[1].time[i]),
                                    weatherElements, 1, i) IN
         IF done = <<>> THEN <<>>
         ELSE ForecastLoop(Append(forecasts, done[1]), weatherElements,
                           i + 1, timeCount)

\* lines 88-89: weatherElement[0]?.time?.[0]?.startTime || null
ForecastTime(weatherElement) ==
    IF Len(weatherElement) = 0 THEN Null
    ELSE IF ~Has(weatherElement[1], "time") THEN Null
    ELSE IF Len(weatherElement[1].time) = 0 THEN Null
    ELSE OrElse(Prop(weatherElement[1].time[1], "startTime"), Null)

\* lines 81-141 for a payload that passed the check of lines 70-74.  The
\* result is <<response>>, or <<>> when a TypeError is thrown.
Normalize(cities, c, records) ==
    LET locationData == records.location[1] IN
    IF ~Has(locationData, "weatherElement") THEN <<>>        \* line 89
    ELSE LET weatherElements == locationData.weatherElement IN
         IF Len(weatherElements) = 0 THEN <<>>               \* line 95
         ELSE IF ~Has(weatherElements[1], "time") THEN <<>>  \* line 95
         ELSE LET forecasts == ForecastLoop(<<>>, weatherElements, 1,
                                            Len(weatherElements[1].time)) IN
              IF forecasts = <<>> THEN <<>>
              ELSE <<Json(200,
                          [success |-> TRUE,
                           data |-> [city         |-> CityDisplayName(cities, c),
                                     cityId       |-> c,
                                     updateTime   |-> Prop(records, "datasetDescription"),
                                     forecastTime |-> ForecastTime(weatherElements),
                                     forecasts    |-> forecasts[1]]])>>

-----------------------------------------------------------------------------
(* The handler after the await, lines 69-157 *)

\* the try block without the check of lines 70-74: line 81 or line 89 then
\* reads a property of undefined
TryAfterAwaitUnchecked(cities, c, data) ==
    IF data.t \in {"null", "undefined"} THEN <<>>
    ELSE IF \/ ~Has(data, "records")
            \/ ~Has(data.records, "location")
            \/ Len(data.records.location) = 0
         THEN <<>>
    ELSE Normalize(cities, c, data.records)

\* The try block from line 69 on, for a 2xx reply with body data.  The
\* result is <<response>>, or <<>> when a TypeError is thrown.
TryAfterAwait(cities, c, data) ==
    IF data.t \in {"null", "undefined"} THEN <<>>            \* line 71
    ELSE IF \/ ~Has(data, "records")
            \/ ~Has(data.records, "location")
            \/ Len(data.records.location) = 0
         THEN <<NotFoundResponse(cities, c)>>
    ELSE Normalize(cities, c, data.records)

\* The catch block, lines 142-157, for an axios error carrying a response.
\* The result is <<response>>, or <<>> when line 148 throws a TypeError.
CatchUpstreamError(status, data) ==
    IF data.t \in {"null", "undefined"} THEN <<>>
    ELSE <<UpstreamErrorResponse(status, data)>>

\* Lines 69-157 for the outcome o of the outbound call: <<response>> when
\* the handler answers, <<>> when an error leaves the handler.
Settle(cities, c, o) ==
    CASE o.kind = "network" -> <<GenericErrorResponse>>
      [] o.kind = "http"    -> CatchUpstreamError(o.status, o.data)
      [] o.kind = "ok"      ->
           LET r == TryAfterAwait(cities, c, o.data) IN
           IF r = <<>> THEN <<GenericErrorResponse>> ELSE r

-----------------------------------------------------------------------------
(* The environment: city codes a caller may send, credentials the process  *)
(* may start with, and outcomes of the outbound call.                      *)

Requests == 1..NumRequests

\* the six registered ids, an unregistered id, and two names Object.prototype owns
CityCodes ==
    DOMAIN Registry \cup {"hsinchu", "constructor", "toString"}

\* unset, set to the empty string, set
ApiKeys == {Undefined, "", "CWA-KEY"}

\* the two majors of express in use; the repository pins neither in src/
ExpressMajors == {4, 5}

SeqsUpTo(S, n) == UNION {[1..k -> S] : k \in 0..n}

\* a 2xx reply whose body is the JSON object data
Ok(data) == [kind |-> "ok", data |-> data]

\* the dataset's reply for one location with the given weatherElement array
Forecast(weatherElement) ==
    Ok([t |-> "object", success |-> "true",
        records |-> [datasetDescription |-> "36h forecast",
                     location |-> <<[locationName |-> "L",
                                     weatherElement |-> weatherElement]>>]])

\* axios rejects without a response (timeout, DNS, reset), or with the
\* non-2xx response of the upstream: its status and its parsed body
UpstreamStatuses == {401, 404, 503}

ErrorBodies ==
    {[t |-> "null"], [t |-> "undefined"],
     [t |-> "string", s |-> ""], [t |-> "string", s |-> "Bad Gateway"],
     [t |-> "object", message |-> "quota exceeded"],
     [t |-> "object", message |-> ""],
     [t |-> "object", code |-> "E429"]}

Failures ==
    {[kind |-> "network"]}
    \cup {[kind |-> "http", status |-> st, data |-> b] :
             st \in UpstreamStatuses, b \in ErrorBodies}

\* 2xx replies that lack a part of records.location[0].weatherElement[].time[]
Malformed ==
    {Ok([t |-> "null"]),
     Ok([t |-> "string", s |-> ""]),
     Ok([t |-> "object", success |-> "false"]),
     Ok([t |-> "object", records |-> [datasetDescription |-> "36h forecast"]]),
     Ok([t |-> "object", records |-> [datasetDescription |-> "36h forecast",
                                      location |-> <<>>]]),
     Ok([t |-> "object", records |-> [datasetDescription |-> "36h forecast",
                                      location |-> <<[locationName |-> "L"]>>]]),
     Forecast(<<>>),
     Forecast(<<[elementName |-> "Wx"]>>)}

\* Time-series payloads: up to MaxElements elements, each with its own
\* number of slots (up to MaxSlots) and its own times.
SeriesSlot(startTime, endTime) ==
    [startTime |-> startTime, endTime |-> endTime,
     parameter |-> [parameterName |-> "cloudy", parameterValue |-> "4"]]

SeriesSlots == {SeriesSlot("T1", "E1"), SeriesSlot("T2", "E2")}

SeriesElements ==
    {[elementName |-> "Wx", time |-> tms] : tms \in SeqsUpTo(SeriesSlots, MaxSlots)}

SeriesReplies ==
    {Forecast(we) : we \in SeqsUpTo(SeriesElements, MaxElements)}

\* payloads whose first slot has an empty startTime
UndatedReplies ==
    {Forecast(<<[elementName |-> "Wx", time |-> <<SeriesSlot("", "E0")>>]>>),
     Forecast(<<[elementName |-> "Wx",
                 time |-> <<SeriesSlot("", "E0"), SeriesSlot("T1", "E1")>>]>>)}

\* Field payloads: k elements of any name, all with the same n slots on one
\* time axis, k * n <= MaxCells; each slot with or without a parameter, and
\* the parameter with or without a (possibly empty) parameterName.
ElementNames == {"Wx", "PoP", "MinT", "MaxT", "CI", "WS", "UVI"}

TimeAt(i) == [startTime |-> "T" \o ToString(i), endTime |-> "E" \o ToString(i)]

FieldSlotsAt(i) ==
    {TimeAt(i)}
    \cup {[startTime |-> TimeAt(i).startTime, endTime |-> TimeAt(i).endTime,
           parameter |-> p] :
             p \in {[parameterValue |-> "1"],
                    [parameterName |-> "", parameterValue |-> "1"],
                    [parameterName |-> "20", parameterValue |-> "1"]}}

FieldSeries(n) == {tms \in [1..n -> UNION {FieldSlotsAt(i) : i \in 1..n}] :
                      \A i \in 1..n : tms[i] \in FieldSlotsAt(i)}

FieldElements(n) ==
    {[elementName |-> nm, time |-> tms] : nm \in ElementNames, tms \in FieldSeries(n)}

FieldReplies ==
    {Forecast(we) :
        we \in UNION {[1..cell[1] -> FieldElements(cell[2])] :
                         cell \in {kn \in (1..MaxCells) \X (0..MaxCells) :
                                      kn[1] * kn[2] <= MaxCells}}}

-----------------------------------------------------------------------------
(* State *)

Init ==
    /\ CITIES = Registry
    /\ CWA_API_KEY \in ApiKeys
    /\ express \in ExpressMajors
    /\ pc = [r \in Requests |-> "idle"]
    /\ city = [r \in Requests |-> ""]
    /\ outbound = [r \in Requests |-> <<>>]
    /\ reply = [r \in Requests |-> <<>>]
    /\ res = [r \in Requests |-> <<>>]
    /\ err = [r \in Requests |-> ""]

\* city as a variable of the module, assigned by every invocation: after
\* the await it holds the city of the latest request that got that far
RequestCityShared(r) ==
    city[CHOOSE q \in Requests :
            /\ outbound[q] # <<>>
            /\ \A p \in Requests : outbound[p] # <<>> => p <= q]

\* the city a request's handler works with: const { city } = req.params,
\* a binding of the handler's own invocation (line 34)
RequestCity(r) == city[r]

\* GET /api/weather/c arrives as request r: getCityWeather up to the await,
\* lines 33-67.
Receive(r, c) ==
    /\ pc[r] = "idle"
    /\ city' = [city EXCEPT ![r] = c]
    /\ IF IsInvalidCity(CITIES, c)
          THEN /\ res' = [res EXCEPT ![r] = Append(@, InvalidCityResponse(CITIES))]
               /\ pc' = [pc EXCEPT ![r] = "done"]
               /\ UNCHANGED outbound
       ELSE IF IsMissingKey(CWA_API_KEY)
          THEN /\ res' = [res EXCEPT ![r] = Append(@, MissingKeyResponse)]
               /\ pc' = [pc EXCEPT ![r] = "done"]
               /\ UNCHANGED outbound
       ELSE /\ outbound' = [outbound EXCEPT ![r] =
                   Append(@, [dataset |-> "F-C0032-001",
                              Authorization |-> CWA_API_KEY,
                              locationName |-> CityName(CITIES, c)])]
            /\ pc' = [pc EXCEPT ![r] = "awaiting"]
            /\ UNCHANGED res
    /\ UNCHANGED <<CITIES, CWA_API_KEY, express, reply, err>>

\* The outbound call of request r settles with one of the given outcomes
\* and the handler resumes: lines 69-157.
UpstreamReply(r, outcomes) ==
    /\ pc[r] = "awaiting"
    /\ \E o \in outcomes :
          /\ reply' = [reply EXCEPT ![r] = <<o>>]
          /\ LET s == Settle(CITIES, RequestCity(r), o) IN
             IF s = <<>>
                THEN /\ pc' = [pc EXCEPT ![r] = "rejected"]
                     /\ err' = [err EXCEPT ![r] = TypeErrorMessage]
                     /\ UNCHANGED res
                ELSE /\ pc' = [pc EXCEPT ![r] = "done"]
                     /\ res' = [res EXCEPT ![r] = Append(@, s[1])]
                     /\ UNCHANGED err
    /\ UNCHANGED <<CITIES, CWA_API_KEY, express, city, outbound>>

\* Express 5: the rejected promise of the handler is passed to next(), and
\* the error-handling middleware answers, lines 195-201.
ErrorMiddleware(r) ==
    /\ express = 5
    /\ pc[r] = "rejected"
    /\ res' = [res EXCEPT ![r] = Append(@, MiddlewareResponse(err[r]))]
    /\ pc' = [pc EXCEPT ![r] = "done"]
    /\ UNCHANGED <<CITIES, CWA_API_KEY, express, city, outbound, reply, err>>

\* Express 4: the router drops the handler's promise; the rejection is
\* unhandled and the request is never answered (line 192).
UnhandledRejection(r) ==
    /\ express = 4
    /\ pc[r] = "rejected"
    /\ pc' = [pc EXCEPT ![r] = "unhandled"]
    /\ UNCHANGED <<CITIES, CWA_API_KEY, express, city, outbound, reply, res, err>>

\* One request; every city code; failures, malformed and time-series replies.
Replies == Failures \cup Malformed \cup SeriesReplies \cup UndatedReplies

Next ==
    \/ \E c \in CityCodes : Receive(1, c)
    \/ UpstreamReply(1, Replies)
    \/ ErrorMiddleware(1)
    \/ UnhandledRejection(1)

Spec == Init /\ [][Next]_vars

\* One request; field payloads.
RepliesWithFields == Failures \cup FieldReplies

FieldCityCodes == {"taipei", "hsinchu"}

NextFields ==
    \/ \E c \in FieldCityCodes : Receive(1, c)
    \/ UpstreamReply(1, RepliesWithFields)
    \/ ErrorMiddleware(1)
    \/ UnhandledRejection(1)

SpecFields == Init /\ [][NextFields]_vars

\* NumRequests requests in flight at once, each suspended at its own await.
ConcurrentReplies ==
    {[kind |-> "network"],
     [kind |-> "http", status |-> 503, data |-> [t |-> "string", s |-> "Bad Gateway"]],
     [kind |-> "http", status |-> 503, data |-> [t |-> "null"]],
     Ok([t |-> "object", records |-> [datasetDescription |-> "36h forecast",
                                      location |-> <<>>]]),
     Forecast(<<[elementName |-> "Wx", time |-> <<>>]>>),
     Forecast(<<[elementName |-> "PoP",
                 time |-> <<[startTime |-> "T1", endTime |-> "E1",
                             parameter |-> [parameterName |-> "20",
                                            parameterValue |-> "1"]]>>]>>)}

ConcurrentCityCodes == {"taipei", "kaohsiung", "hsinchu"}

NextConcurrent ==
    \E r \in Requests :
       \/ \E c \in ConcurrentCityCodes : Receive(r, c)
       \/ UpstreamReply(r, ConcurrentReplies)
       \/ ErrorMiddleware(r)
       \/ UnhandledRejection(r)

SpecConcurrent == Init /\ [][NextConcurrent]_vars

-----------------------------------------------------------------------------
(* Vocabulary of the properties *)

RegisteredSet == {RegisteredIds[n] : n \in 1..Len(RegisteredIds)}

\* the handling of request r is over: answered, or abandoned unanswered
Finished(r) == pc[r] \in {"done", "unhandled"}

\* the outbound call of request r has settled; Outcome(r) is how
Replied(r) == reply[r] # <<>>
Outcome(r) == reply[r][1]

KeyAbsent == CWA_API_KEY \in {Undefined, ""}

\* o is a 2xx reply with a JSON body whose records property can be read
ReadableBody(o) == o.kind = "ok" /\ o.data.t \in {"object", "string"}

\* ... in which records, records.location or its first entry is missing
NoLocation(o) ==
    \/ ~Has(o.data, "records")
    \/ ~Has(o.data.records, "location")
    \/ o.data.records.location = <<>>

\* o is a 2xx reply holding a first location
HasLocation(o) == ReadableBody(o) /\ ~NoLocation(o)

\* ... whose weatherElement array has an element 0 and only elements with
\* a time array
IsForecastPayload(o) ==
    /\ HasLocation(o)
    /\ Has(o.data.records.location[1], "weatherElement")
    /\ LET we == o.data.records.location[1].weatherElement IN
       /\ Len(we) >= 1
       /\ \A k \in 1..Len(we) : Has(we[k], "time")

ElementsOf(o) == o.data.records.location[1].weatherElement

GenericMessage == "cannot get weather data, try again later"

-----------------------------------------------------------------------------
(* C1.  Every city code that is not one of the six registered ids,         *)
(* including names the registry object inherits, is answered 400 with all  *)
(* six ids in validCities, and no outbound call is made.                   *)
(* The code answers "constructor" and "toString" as if registered.         *)
C1_UnregisteredRejected ==
    \A r \in Requests :
       (pc[r] # "idle" /\ city[r] \notin RegisteredSet) =>
          /\ outbound[r] = <<>>
          /\ Len(res[r]) = 1
          /\ res[r][1].status = 400
          /\ RegisteredSet \subseteq
                {res[r][1].body.validCities[k].id :
                    k \in 1..Len(res[r][1].body.validCities)}

-----------------------------------------------------------------------------
(* C2, as stated.  With the credential absent, every call, whatever its    *)
(* city code, gets the 500 configuration error and makes no outbound call. *)
C2_AnyCityConfigurationError ==
    KeyAbsent =>
       \A r \in Requests :
          /\ outbound[r] = <<>>
          /\ pc[r] # "idle" =>
                /\ Len(res[r]) = 1
                /\ res[r][1].status = 500
                /\ res[r][1].body.error = "server configuration error"

(* C2, amended.  With the credential absent no call makes an outbound      *)
(* call; a call whose city code passes the city check (the six registered  *)
(* ids, and the names the registry object inherits) gets the 500           *)
(* configuration error, and any other call gets the 400 of the city check, *)
(* which comes first.                                                      *)
C2_ConfigurationErrorAfterCityCheck ==
    KeyAbsent =>
       \A r \in Requests :
          /\ outbound[r] = <<>>
          /\ pc[r] # "idle" =>
                /\ pc[r] = "done"
                /\ Len(res[r]) = 1
                /\ IF city[r] \in RegisteredSet \cup {"constructor", "toString"}
                      THEN /\ res[r][1].status = 500
                           /\ res[r][1].body.error = "server configuration error"
                           /\ Has(res[r][1].body, "message")
                      ELSE res[r][1].status = 400

C2_Witness ==
    /\ CWA_API_KEY = ""
    /\ \E r \in Requests :
          /\ city[r] = "tainan"
          /\ pc[r] = "done"
          /\ Len(res[r]) = 1
          /\ res[r][1].status = 500

-----------------------------------------------------------------------------
(* C3.  When the upstream answers a request for a registered city with a   *)
(* non-2xx status, whatever the status and the body (an empty or absent    *)
(* body too), the response has the upstream's status and carries the       *)
(* upstream's body as details.                                             *)
(* With a null or undefined body line 148 throws inside the catch block.   *)
C3_UpstreamErrorMirrored ==
    \A r \in Requests :
       (/\ Finished(r)
        /\ city[r] \in RegisteredSet
        /\ Replied(r)
        /\ Outcome(r).kind = "http") =>
          /\ Len(res[r]) = 1
          /\ res[r][1].status = Outcome(r).status
          /\ Has(res[r][1].body, "details")
          /\ res[r][1].body.details = Outcome(r).data

-----------------------------------------------------------------------------
(* C4.  When the upstream answers a request for a registered city with a   *)
(* 2xx body in which records is absent, records.location is absent or      *)
(* records.location is an empty array, the response is the 404 not-found   *)
(* envelope for that city and carries no forecast data.                    *)
C4_NoLocationNotFound ==
    \A r \in Requests :
       (/\ city[r] \in RegisteredSet
        /\ Replied(r)
        /\ ReadableBody(Outcome(r))
        /\ NoLocation(Outcome(r))) =>
          /\ pc[r] = "done"
          /\ Len(res[r]) = 1
          /\ res[r][1].status = 404
          /\ res[r][1].body.error = "no data"
          /\ res[r][1].body.message =
                "cannot get weather data of " \o Registry[city[r]].displayName
          /\ ~Has(res[r][1].body, "data")
          /\ ~Has(res[r][1].body, "success")

C4_Witness ==
    \E r \in Requests :
       /\ city[r] = "taichung"
       /\ Replied(r)
       /\ ReadableBody(Outcome(r))
       /\ Has(Outcome(r).data, "records")
       /\ Has(Outcome(r).data.records, "location")
       /\ Outcome(r).data.records.location = <<>>
       /\ Len(res[r]) = 1
       /\ res[r][1].status = 404

-----------------------------------------------------------------------------
(* C7.  When the upstream answers 2xx with a non-empty records.location    *)
(* whose first entry has no weatherElement array, the request is answered  *)
(* 404 (not found).                                                        *)
(* Line 89 throws a TypeError and the catch block answers the generic 500. *)
C7_MissingWeatherElementNotFound ==
    \A r \in Requests :
       (/\ Finished(r)
        /\ city[r] \in RegisteredSet
        /\ Replied(r)
        /\ HasLocation(Outcome(r))
        /\ ~Has(Outcome(r).data.records.location[1], "weatherElement")) =>
          /\ Len(res[r]) = 1
          /\ res[r][1].status = 404

-----------------------------------------------------------------------------
\* a failure outside the four classified kinds
UnclassifiedFailure(r) ==
    /\ Replied(r)
    /\ \/ Outcome(r).kind = "network"
       \/ Outcome(r).kind = "ok" /\ Outcome(r).data.t \in {"null", "undefined"}
       \/ HasLocation(Outcome(r)) /\ ~IsForecastPayload(Outcome(r))

(* C8.  Every failure of a request is caught inside the handler: no error  *)
(* leaves it, a request whose handling is over has received exactly one    *)
(* response, every response other than the success carries an error tag    *)
(* and a message, and a failure that is none of invalid city, missing      *)
(* credential, upstream HTTP error and not found (a network failure, a     *)
(* structural failure on a malformed payload) is the generic 500.          *)
(* The TypeError of line 148 leaves the handler.                           *)
C8_EveryFailureCaught ==
    \A r \in Requests :
       /\ pc[r] \notin {"rejected", "unhandled"}
       /\ pc[r] = "done" =>
             /\ Len(res[r]) = 1
             /\ res[r][1].status # 200 =>
                   {"error", "message"} \subseteq DOMAIN res[r][1].body
             /\ UnclassifiedFailure(r) =>
                   /\ res[r][1].status = 500
                   /\ res[r][1].body.message = GenericMessage

-----------------------------------------------------------------------------
(* C5.  For each registered city, with the credential present and a        *)
(* payload whose weather elements all have time series of one length n,    *)
(* the response is 200 with success true and exactly n forecasts; forecast *)
(* i carries the startTime and endTime of element 0's slot i, in upstream  *)
(* order; forecastTime is the first slot's startTime, and null when there  *)
(* is none (no slot, or an empty startTime).                               *)
C5_EqualLengthForecasts ==
    \A r \in Requests :
       (/\ city[r] \in RegisteredSet
        /\ Replied(r)
        /\ IsForecastPayload(Outcome(r))
        /\ \A k \in 1..Len(ElementsOf(Outcome(r))) :
              Len(ElementsOf(Outcome(r))[k].time) = Len(ElementsOf(Outcome(r))[1].time)) =>
          LET axis == ElementsOf(Outcome(r))[1].time
              n == Len(axis)
          IN /\ pc[r] = "done"
             /\ Len(res[r]) = 1
             /\ res[r][1].status = 200
             /\ res[r][1].body.success = TRUE
             /\ res[r][1].body.data.cityId = city[r]
             /\ Len(res[r][1].body.data.forecasts) = n
             /\ \A i \in 1..n :
                   /\ res[r][1].body.data.forecasts[i].startTime = axis[i].startTime
                   /\ res[r][1].body.data.forecasts[i].endTime = axis[i].endTime
             /\ res[r][1].body.data.forecastTime =
                   IF n = 0 \/ axis[1].startTime = "" THEN Null
                   ELSE axis[1].startTime

\* two elements of two slots each, the later time first
C5_Witness ==
    \E r \in Requests :
       /\ city[r] = "kaohsiung"
       /\ Replied(r)
       /\ IsForecastPayload(Outcome(r))
       /\ Len(ElementsOf(Outcome(r))) = 2
       /\ Len(ElementsOf(Outcome(r))[1].time) = 2
       /\ Len(ElementsOf(Outcome(r))[2].time) = 2
       /\ ElementsOf(Outcome(r))[1].time[1].startTime = "T2"
       /\ ElementsOf(Outcome(r))[1].time[2].startTime = "T1"
       /\ ElementsOf(Outcome(r))[2].time[1].startTime = "T1"
       /\ Len(res[r]) = 1
       /\ res[r][1].status = 200
       /\ Len(res[r][1].body.data.forecasts) = 2

-----------------------------------------------------------------------------
(* C9.  A success response never carries a partial or mis-sized forecast   *)
(* list: a 200 response has exactly as many forecasts as element 0 has     *)
(* time slots; when some element has fewer slots than element 0 the        *)
(* request ends in the generic 500 and no success is sent; when no element *)
(* has fewer slots (some may have more) the response is the 200 with one   *)
(* forecast per slot of element 0.                                         *)
C9_NoPartialForecasts ==
    \A r \in Requests :
       /\ (Len(res[r]) >= 1 /\ res[r][1].status = 200) =>
             /\ IsForecastPayload(Outcome(r))
             /\ Len(res[r][1].body.data.forecasts) =
                   Len(ElementsOf(Outcome(r))[1].time)
       /\ (Replied(r) /\ IsForecastPayload(Outcome(r))) =>
             LET we == ElementsOf(Outcome(r))
                 n == Len(we[1].time)
             IN /\ pc[r] = "done"
                /\ Len(res[r]) = 1
                /\ IF \E k \in 1..Len(we) : Len(we[k].time) < n
                      THEN /\ res[r][1].status = 500
                           /\ res[r][1].body.message = GenericMessage
                           /\ ~Has(res[r][1].body, "data")
                           /\ ~Has(res[r][1].body, "success")
                      ELSE /\ res[r][1].status = 200
                           /\ Len(res[r][1].body.data.forecasts) = n

\* element 1 has one slot fewer than element 0
C9_Witness ==
    \E r \in Requests :
       /\ Replied(r)
       /\ IsForecastPayload(Outcome(r))
       /\ Len(ElementsOf(Outcome(r))) = 2
       /\ Len(ElementsOf(Outcome(r))[1].time) = 2
       /\ Len(ElementsOf(Outcome(r))[2].time) = 1
       /\ pc[r] = "done"
       /\ Len(res[r]) = 1
       /\ res[r][1].status = 500

-----------------------------------------------------------------------------
(* Vocabulary of C6: the table of the switch, lines 112-131 *)
Fields == {"weather", "rain", "minTemp", "maxTemp", "comfort", "windSpeed"}

ElementFor(f) ==
    CASE f = "weather" -> "Wx"   [] f = "rain" -> "PoP"
      [] f = "minTemp" -> "MinT" [] f = "maxTemp" -> "MaxT"
      [] f = "comfort" -> "CI"   [] f = "windSpeed" -> "WS"

Suffix(f) ==
    CASE f = "rain" -> "%"
      [] f \in {"minTemp", "maxTemp"} -> "degC"
      [] OTHER -> ""

DocumentedDefault(f) ==
    CASE f \in {"weather", "comfort"} -> "unknown"
      [] f = "rain" -> "0%"
      [] f \in {"minTemp", "maxTemp"} -> "N/AdegC"
      [] f = "windSpeed" -> "0"

Seed(f) ==
    CASE f \in {"weather", "comfort"} -> "unknown"
      [] f = "rain" -> "0%"
      [] f \in {"minTemp", "maxTemp"} -> "N/A"
      [] f = "windSpeed" -> "0"

ExpectedField(we, i, f) ==
    LET deciding == {k \in 1..Len(we) :
                        /\ Prop(we[k], "elementName") = ElementFor(f)
                        /\ Has(we[k].time[i], "parameter")}
    IN IF deciding = {} THEN Seed(f)
       ELSE LET last == CHOOSE k \in deciding : \A j \in deciding : j <= k
                pn == Prop(we[last].time[i].parameter, "parameterName")
            IN IF pn \in {Undefined, ""} THEN DocumentedDefault(f)
               ELSE pn \o Suffix(f)

(* C6.  In a success response, for every time index i, each forecast field *)
(* is decided by slot i of the elements mapped to it: Wx -> weather,       *)
(* CI -> comfort and WS -> windSpeed raw, PoP -> rain with "%", MinT ->    *)
(* minTemp and MaxT -> maxTemp with the degree suffix.  Where the slot's   *)
(* parameter has an empty or missing parameterName the field is the        *)
(* documented default ("unknown", "0%", "N/A" with the suffix, "0").  An   *)
(* element of any other name changes no field.  (Of two elements mapped to *)
(* one field the later decides; a field with no mapped element, or whose   *)
(* slot has no parameter object, keeps the seed of lines 101-106.)         *)
C6_FieldsFromElements ==
    \A r \in Requests :
       (Len(res[r]) >= 1 /\ res[r][1].status = 200) =>
          \A i \in 1..Len(res[r][1].body.data.forecasts) :
             \A f \in Fields :
                res[r][1].body.data.forecasts[i][f] =
                   ExpectedField(ElementsOf(Outcome(r)), i, f)

\* MinT with an empty parameterName, then an element of an unknown name
C6_Witness ==
    \E r \in Requests :
       /\ Replied(r)
       /\ IsForecastPayload(Outcome(r))
       /\ Len(ElementsOf(Outcome(r))) = 2
       /\ ElementsOf(Outcome(r))[1].elementName = "MinT"
       /\ Len(ElementsOf(Outcome(r))[1].time) = 1
       /\ Has(ElementsOf(Outcome(r))[1].time[1], "parameter")
       /\ Prop(ElementsOf(Outcome(r))[1].time[1].parameter, "parameterName") = ""
       /\ ElementsOf(Outcome(r))[2].elementName = "UVI"
       /\ Has(ElementsOf(Outcome(r))[2].time[1], "parameter")
       /\ Prop(ElementsOf(Outcome(r))[2].time[1].parameter, "parameterName") = "20"
       /\ Len(res[r]) = 1
       /\ res[r][1].status = 200
       /\ res[r][1].body.data.forecasts[1].minTemp = "N/AdegC"
       /\ res[r][1].body.data.forecasts[1].maxTemp = "N/A"

-----------------------------------------------------------------------------
(* C10.  Handling is stateless and deterministic: in every interleaving of *)
(* concurrent requests the registry stays as defined, a success response   *)
(* names the request's own city, and two requests with the same city code  *)
(* and the same upstream outcome end the same way with equal responses,    *)
(* whatever ran in between.                                                *)
C10_StatelessDeterministic ==
    /\ CITIES = Registry
    /\ \A r \in Requests :
          (Len(res[r]) >= 1 /\ res[r][1].status = 200) =>
             /\ res[r][1].body.data.cityId = city[r]
             /\ res[r][1].body.data.city = Registry[city[r]].displayName
    /\ \A r1, r2 \in Requests :
          (/\ Finished(r1) /\ Finished(r2)
           /\ city[r1] = city[r2]
           /\ reply[r1] = reply[r2]) =>
             /\ pc[r1] = pc[r2]
             /\ res[r1] = res[r2]

\* two requests for one city with one outcome, around a request for another
C10_Witness ==
    /\ city[1] = "taipei" /\ city[3] = "taipei" /\ city[2] = "kaohsiung"
    /\ Finished(1) /\ Finished(2) /\ Finished(3)
    /\ Replied(1) /\ Replied(2) /\ Replied(3)
    /\ reply[1] = reply[3]
    /\ reply[2] # reply[1]
    /\ res[1][1].status = 200
    /\ res[3] = res[1]
    /\ res[2] # res[1]

=============================================================================
